---- MODULE Spec2Model ----
(***************************************************************************)
(* A model of tidalauth's browser-interaction engine: the session fields   *)
(* of PlaywrightEngine, the retry_with_backoff and report_status           *)
(* decorators of utils.py, the selector resolver and the public            *)
(* operations of engine.py.  The browser (DOM, driver) is the environment: *)
(* what a query matches and whether a driver call raises are inputs drawn  *)
(* at every attempt.  __main__.main, the one caller of the engine in the   *)
(* repository, is modelled with the response of its HTTP probe as input.   *)
(***************************************************************************)
EXTENDS Integers, Sequences, FiniteSets, Bags, TLC

VARIABLES
    _playwright,   \* PlaywrightEngine._playwright: None or the driver's id
    _browser,      \* PlaywrightEngine._browser
    _context,      \* PlaywrightEngine._context
    _page,         \* PlaywrightEngine._page
    acquired,      \* driver objects ever created, as <<resource, id>>
    closed,        \* driver objects released (closed / stopped)
    setups,        \* number of setup() calls made so far
    stack,         \* the Python call stack of decorated operations, innermost last
    log,           \* the bag of reports emitted by report() during the current top-level call
    result,        \* what the last top-level call returned or raised
    driver_calls,  \* driver methods invoked on the page during the current top-level call
    life,          \* what the last setup() or teardown() call did
    dialogs,       \* the "dialog" listeners of the page and the dialogs it has shown
    main           \* __main__.main: its position, the probe's response body, how it ended

vars == <<_playwright, _browser, _context, _page, acquired, closed, setups,
          stack, log, result, driver_calls, life, dialogs, main>>

session == <<_playwright, _browser, _context, _page, acquired, closed, setups>>

None == 0

(***************************************************************************)
(* Bounds of the model.                                                    *)
(***************************************************************************)
MaxMatches == 2     \* elements a selector matches, at most
MaxIframes == 1     \* length of an iframe chain, at most
MaxPolls == 1       \* Enter presses of one command_navigate attempt told apart: 1 stands for 1 or more
MaxSetups == 2      \* setup() calls on one engine object, at most
MaxReports == 5     \* copies of one report the log tells apart: 5 stands for 5 or more
MaxHandlers == 2    \* "dialog" listeners told apart: 2 stands for 2 or more
MaxDialogs == 2     \* dialogs shown since the last listener was added: 2 stands for 2 or more
MaxBody == 3        \* tokens of the probe's response body, at most

(***************************************************************************)
(* Program constants.                                                      *)
(***************************************************************************)
StopAfterAttempt == 5    \* stop_after_attempt(5)
WaitMultiplier == 1      \* wait_exponential(multiplier=1, ...)
WaitMin == 1             \* wait_exponential(min=1, ...)
WaitMax == 30            \* wait_exponential(max=30)
ExpBase == 2             \* wait_exponential's exp_base default

Max(a, b) == IF a >= b THEN a ELSE b
Min(a, b) == IF a <= b THEN a ELSE b

RECURSIVE Pow(_, _)
Pow(b, n) == IF n = 0 THEN 1 ELSE b * Pow(b, n - 1)

(***************************************************************************)
(* Python values passed as arguments.  A value carries its type and its    *)
(* text as a sequence of tokens (a list has one token per element).        *)
(***************************************************************************)
PyStr(s) == [type |-> "str", toks |-> <<s>>]
SecretStr(s) == [type |-> "SecretStr", toks |-> <<s>>]
PyBool(b) == [type |-> "bool", toks |-> <<IF b THEN "True" ELSE "False">>]
PyList(q) == [type |-> "list", toks |-> q]
PyNone == [type |-> "NoneType", toks |-> <<"None">>]
FrameLocator == [type |-> "FrameLocator", toks |-> <<"<FrameLocator>">>]

isinstance(v, t) == v.type = t

\* pydantic's SecretStr.__str__ masks a non-empty secret; str() of anything else is its text
SecretMask == "**********"
str(v) == IF isinstance(v, "SecretStr") THEN <<SecretMask>> ELSE v.toks
get_secret_value(v) == v.toks

\* utils.get_str_value
get_str_value(value) ==
    IF isinstance(value, "SecretStr") THEN get_secret_value(value) ELSE str(value)

(***************************************************************************)
(* utils.SelectorType and PlaywrightEngine._get_selector.  A query string  *)
(* is modelled as <<prefix, selector>>.                                    *)
(***************************************************************************)
CSS == "css"
ID == "id"
XPATH == "xpath"
SelectorType == {CSS, ID, XPATH}

_get_selector(selector, selector_type) ==
    CASE selector_type = XPATH -> [ok |-> TRUE, q |-> <<"xpath=", selector>>]
      [] selector_type = ID -> [ok |-> TRUE, q |-> <<"#", selector>>]
      [] selector_type = CSS -> [ok |-> TRUE, q |-> <<"", selector>>]
      [] OTHER -> [ok |-> FALSE, q |-> <<"", selector>>]

(***************************************************************************)
(* The DOM as the environment shows it to one query: the visibility of the *)
(* matched elements, in document order.                                    *)
(***************************************************************************)
Doms == UNION {[1..n -> BOOLEAN] : n \in 0..MaxMatches}

\* a page has exactly one body element
BodyDom == <<TRUE>>

AnyVisible(m) == \E i \in 1..Len(m) : m[i]

\* a scan that keeps the last visible element instead of returning at the first
LastVisible(m) ==
    IF AnyVisible(m) THEN CHOOSE i \in 1..Len(m) : m[i] /\ \A j \in (i + 1)..Len(m) : ~m[j]
    ELSE 0

\* least index of a visible element, 0 when there is none: the for loop of _get_locator
FirstVisible(m) ==
    IF AnyVisible(m) THEN CHOOSE i \in 1..Len(m) : m[i] /\ \A j \in 1..(i - 1) : ~m[j]
    ELSE 0

\* a backoff whose exponent is the attempt number itself: 2 s after the first failure
wait_exponential_from_two(attempt_number) ==
    Max(Max(0, WaitMin), Min(WaitMultiplier * Pow(ExpBase, attempt_number), WaitMax))

\* a stop condition that lets a sixth attempt run
stop_after_attempt_late(attempt_number) == attempt_number > StopAfterAttempt

(***************************************************************************)
(* tenacity's wait_exponential(multiplier, min, max), called by the retry  *)
(* wrapper after failed attempt number attempt_number:                     *)
(*   exp = exp_base ** (attempt_number - 1); result = multiplier * exp;    *)
(*   return max(max(0, min), min(result, max))                             *)
(***************************************************************************)
wait_exponential(attempt_number) ==
    Max(Max(0, WaitMin), Min(WaitMultiplier * Pow(ExpBase, attempt_number - 1), WaitMax))

\* tenacity's stop_after_attempt(5)
stop_after_attempt(attempt_number) == attempt_number >= StopAfterAttempt

(***************************************************************************)
(* Errors.  An error keeps the function that raised it and the attempt     *)
(* numbers of the calls on the stack when it was raised: two raises of one *)
(* call are different errors.                                              *)
(***************************************************************************)
NotInitialized == "NotInitialized"          \* ValueError("Page not initialized. ...")
ElementNotFound == "ElementNotFound"        \* ValueError("Element not found: ...")
ElementNotVisible == "ElementNotVisible"    \* ValueError("Visible element not found: ...")
InvalidSelectorType == "InvalidSelectorType"
AssertionFailed == "AssertionError"         \* AssertionError, raised by expect() or by the code
DriverError == "DriverError"                \* playwright Error / TimeoutError
RetryError == "RetryError"                  \* tenacity's wrapper, raised when reraise is off
CodeErrors == {NotInitialized, ElementNotFound, ElementNotVisible, InvalidSelectorType,
               AssertionFailed, DriverError}

NoErr == [kind |-> "", fn |-> "", path |-> <<>>]

\* a page property without the check for None
page_unchecked == [ok |-> TRUE, kind |-> ""]

(***************************************************************************)
(* The page property and the state of the page object.                     *)
(***************************************************************************)
page == IF _page = None THEN [ok |-> FALSE, kind |-> NotInitialized]
        ELSE [ok |-> TRUE, kind |-> ""]

PageClosed == <<"page", _page>> \in closed

(***************************************************************************)
(* The environment of one attempt: what the query matches, whether a       *)
(* driver action raises (timeout, navigation error), whether an expect()   *)
(* on the page's url or an element's text holds.                           *)
(***************************************************************************)
Envs == [matches : Doms, drv : BOOLEAN, holds : BOOLEAN]

\* the part of the environment the body of fn reads; the rest is held fixed
UsesDom == {"click", "click_in_iframe", "fill", "fill_in_iframe", "assert_element_visible",
            "assert_text", "element_exists", "assert_element_not_visible"}
UsesExpect == {"assert_url", "assert_text"}
EnvsOf(fn) ==
    [matches : IF fn \in UsesDom THEN Doms ELSE {<<>>},
     drv : BOOLEAN,
     holds : IF fn \in UsesExpect THEN BOOLEAN ELSE {TRUE}]

\* a driver call that talks to the browser raises on a closed page
DrvFails(env) == env.drv \/ PageClosed

(***************************************************************************)
(* PlaywrightEngine._get_locator.  A handle is [nth |-> 0] for the locator *)
(* itself (it designates every match) and [nth |-> i] for locator.nth(i-1).*)
(* iframe is "None" or "FrameLocator"; m is what the query matches.        *)
(***************************************************************************)
Locator == [type |-> "Locator", toks |-> <<"<Locator>">>]

Designates(h, m) == IF h.nth = 0 THEN 1..Len(m) ELSE {h.nth}

LocOk(n, c) == [ok |-> TRUE, kind |-> "", nth |-> n, calls |-> c]
LocErr(k, c) == [ok |-> FALSE, kind |-> k, nth |-> 0, calls |-> c]

\* a resolver that takes the first of several matches without looking at visibility
_get_locator_first(selector, selector_type, iframe, m) ==
    IF isinstance(selector, "Locator") THEN LocOk(0, {})
    ELSE LET s == _get_selector(selector.toks[1], selector_type.toks[1])
             count == Len(m)
         IN  IF ~s.ok THEN LocErr(InvalidSelectorType, {})
             ELSE IF iframe = "None" /\ ~page.ok THEN LocErr(page.kind, {})
             ELSE IF PageClosed THEN LocErr(DriverError, {"locator", "count"})
             ELSE IF count = 0 THEN LocErr(ElementNotFound, {"locator", "count"})
             ELSE IF count > 1 THEN LocOk(1, {"locator", "count"})
             ELSE LocOk(0, {"locator", "count"})

_get_locator(selector, selector_type, iframe, m) ==
    IF isinstance(selector, "Locator") THEN LocOk(0, {})
    ELSE LET s == _get_selector(selector.toks[1], selector_type.toks[1])
             count == Len(m)
         IN  IF ~s.ok THEN LocErr(InvalidSelectorType, {})
             ELSE IF iframe = "None" /\ ~page.ok THEN LocErr(page.kind, {})
             ELSE IF PageClosed THEN LocErr(DriverError, {"locator", "count"})
             ELSE IF count = 0 THEN LocErr(ElementNotFound, {"locator", "count"})
             ELSE IF count > 1
                  THEN IF FirstVisible(m) # 0
                       THEN LocOk(FirstVisible(m), {"locator", "count", "is_visible"})
                       ELSE LocErr(ElementNotVisible, {"locator", "count", "is_visible"})
             ELSE LocOk(0, {"locator", "count"})

\* whether the element a handle designates is visible (a single element is designated)
HandleVisible(h, m) == \A i \in Designates(h, m) : m[i]

(***************************************************************************)
(* Calls.  A call passes its first npos arguments positionally and the     *)
(* rest by keyword; args is the sequence of [name, val] in call order.  An *)
(* optional parameter that is not passed takes its default.                *)
(***************************************************************************)
A(n, v) == [name |-> n, val |-> v]

HasArg(args, n) == \E i \in 1..Len(args) : args[i].name = n

Arg(args, n, default) ==
    IF HasArg(args, n) THEN args[CHOOSE i \in 1..Len(args) : args[i].name = n].val
    ELSE default

(***************************************************************************)
(* report_status.wrapper: the call description.  A part is the text of one *)
(* argument: positional ones through str(), keyword ones through           *)
(* get_str_value(), as "k=...".                                            *)
(***************************************************************************)
args_parts(npos, args) == [i \in 1..npos |-> [key |-> "", toks |-> str(args[i].val)]]

kwargs_parts(npos, args) ==
    [i \in 1..(Len(args) - npos) |->
        [key |-> args[npos + i].name, toks |-> get_str_value(args[npos + i].val)]]

func_call(fn, npos, args) ==
    [name |-> fn, all_args |-> args_parts(npos, args) \o kwargs_parts(npos, args)]

\* PlaywrightEngine.report: Status.FAILED goes to logger.exception, the rest to logger.info
report(message, call, e, status) ==
    [message |-> message, func_call |-> call, e |-> e,
     level |-> IF status = "FAILED" THEN "error" ELSE "info"]

\* the log after r is emitted
Logged(l, r) == IF CopiesIn(r, l) >= MaxReports THEN l ELSE l (+) SetToBag({r})

(***************************************************************************)
(* Frames of decorated calls.  pc is the position inside the retry wrapper *)
(* ("attempt": about to run the function, "wait": about to sleep before    *)
(* the next attempt) or inside the body of an operation that calls other   *)
(* decorated operations.  outcome is tenacity's record of the last         *)
(* attempt; ret is what a decorated operation called from the body gave    *)
(* back.  runs counts the times the body ran to its end.                   *)
(***************************************************************************)
NoEnv == [matches |-> <<>>, drv |-> FALSE, holds |-> TRUE]
NoCore == [ok |-> FALSE, val |-> "None", exc |-> NoErr]
NoFuture == [set |-> FALSE, failed |-> FALSE, val |-> "None", exc |-> NoErr]

\* what a call gives back to its caller: the value or the error, and a record of how it
\* got there (attempt number, sleeps, body runs, the last body run and what it saw)
NoOutcome == [set |-> FALSE, failed |-> FALSE, val |-> "None", exc |-> NoErr, fn |-> "",
              attempts |-> 0, waits |-> <<>>, runs |-> 0, core |-> NoCore, seen |-> NoEnv]

Frame(fn, npos, args) ==
    [fn |-> fn, npos |-> npos, args |-> args, func_call |-> func_call(fn, npos, args),
     pc |-> "attempt", attempt_number |-> 1, outcome |-> NoFuture, waits |-> <<>>,
     runs |-> 0, i |-> 0, iframe |-> "None", ret |-> NoOutcome]

\* every decorated operation but _get_iframe has @retry_with_backoff under @report_status
Retried(fn) == fn # "_get_iframe"

Top == stack[Len(stack)]
Rest == SubSeq(stack, 1, Len(stack) - 1)
Idle == stack = <<>>

NoResult == [fn |-> "", npos |-> 0, args |-> <<>>, done |-> FALSE, out |-> NoOutcome,
             nth |-> 0]

\* no call is running and the caller has taken the outcome of the last one
Ready == Idle /\ ~result.done

\* the error raised now by the function on top of the stack
MkErr(kind) ==
    [kind |-> kind, fn |-> Top.fn, path |-> [j \in 1..Len(stack) |-> stack[j].attempt_number]]

(***************************************************************************)
(* The core action of one attempt of the operations that call no other     *)
(* decorated operation: what engine.py's method body does on the session   *)
(* under env.  f is the frame; calls are the driver methods invoked.       *)
(***************************************************************************)
Ok(v, c) == [ok |-> TRUE, val |-> v, kind |-> "", calls |-> c]
Err(k, c) == [ok |-> FALSE, val |-> "None", kind |-> k, calls |-> c]

DefaultKind == [type |-> "SelectorType", toks |-> <<CSS>>]
Kind(k) == [type |-> "SelectorType", toks |-> <<k>>]

IsTrue(v) == v.toks = <<"True">>

\* navigate: self.page.goto(url, ...); self.sleep(...)
navigate(f, env) ==
    IF ~page.ok THEN Err(page.kind, {})
    ELSE IF DrvFails(env) THEN Err(DriverError, {"goto"})
    ELSE Ok("None", {"goto"})

\* the part of click / click_in_iframe after the iframe chain
click(f, env) ==
    LET with_alert == IsTrue(Arg(f.args, "with_alert", PyBool(FALSE)))
        on == IF with_alert THEN {"on"} ELSE {}
        loc == _get_locator(Arg(f.args, "selector", PyNone),
                            Arg(f.args, "selector_type", DefaultKind), f.iframe, env.matches)
    IN  IF with_alert /\ ~page.ok THEN Err(page.kind, {})
        ELSE IF ~loc.ok THEN Err(loc.kind, on \cup loc.calls)
        ELSE IF DrvFails(env) THEN Err(DriverError, on \cup loc.calls \cup {"click"})
        ELSE IF ~page.ok THEN Err(page.kind, on \cup loc.calls \cup {"click"})
        ELSE Ok("None", on \cup loc.calls \cup {"click", "wait_for_load_state"})

\* the part of fill / fill_in_iframe after the iframe chain
fill(f, env) ==
    LET value == Arg(f.args, "value", PyNone)
        str_value == IF isinstance(value, "SecretStr") THEN get_secret_value(value)
                     ELSE value.toks
        loc == _get_locator(Arg(f.args, "selector", PyNone),
                            Arg(f.args, "selector_type", DefaultKind), f.iframe, env.matches)
    IN  IF ~loc.ok THEN Err(loc.kind, loc.calls)
        ELSE IF DrvFails(env) THEN Err(DriverError, loc.calls \cup {"fill"})
        ELSE Ok("None", loc.calls \cup {"fill"})

\* assert_url: expect(self.page).to_have_url(url)
assert_url(f, env) ==
    IF ~page.ok THEN Err(page.kind, {})
    ELSE IF DrvFails(env) THEN Err(DriverError, {"to_have_url"})
    ELSE IF ~env.holds THEN Err(AssertionFailed, {"to_have_url"})
    ELSE Ok("None", {"to_have_url"})

\* assert_element_visible: expect(locator).to_be_visible()
assert_element_visible(f, env) ==
    LET loc == _get_locator(Arg(f.args, "selector", PyNone),
                            Arg(f.args, "selector_type", DefaultKind), "None", env.matches)
    IN  IF ~loc.ok THEN Err(loc.kind, loc.calls)
        ELSE IF DrvFails(env) THEN Err(DriverError, loc.calls \cup {"to_be_visible"})
        ELSE IF ~HandleVisible(loc, env.matches)
             THEN Err(AssertionFailed, loc.calls \cup {"to_be_visible"})
        ELSE Ok("None", loc.calls \cup {"to_be_visible"})

\* assert_text: expect(locator).to_contain_text(text)
assert_text(f, env) ==
    LET loc == _get_locator(Arg(f.args, "selector", PyNone),
                            Arg(f.args, "selector_type", DefaultKind), "None", env.matches)
    IN  IF ~loc.ok THEN Err(loc.kind, loc.calls)
        ELSE IF DrvFails(env) THEN Err(DriverError, loc.calls \cup {"to_contain_text"})
        ELSE IF ~env.holds THEN Err(AssertionFailed, loc.calls \cup {"to_contain_text"})
        ELSE Ok("None", loc.calls \cup {"to_contain_text"})

PyBoolText(b) == IF b THEN "True" ELSE "False"

\* element_exists:
\*   return locator.count() > 0 and any(loc.is_visible() ...) if check_visible else True
element_exists(f, env) ==
    LET selector == Arg(f.args, "selector", PyNone)
        check_visible == IsTrue(Arg(f.args, "check_visible", PyBool(TRUE)))
        s == _get_selector(selector.toks[1], Arg(f.args, "selector_type", DefaultKind).toks[1])
        count == Len(env.matches)
    IN  IF ~isinstance(selector, "Locator") /\ ~s.ok THEN Err(InvalidSelectorType, {})
        ELSE IF ~isinstance(selector, "Locator") /\ ~page.ok THEN Err(page.kind, {})
        ELSE IF check_visible
             THEN IF DrvFails(env) THEN Err(DriverError, {"locator", "count"})
                  ELSE Ok(PyBoolText(count > 0 /\ AnyVisible(env.matches)),
                          {"locator", "count"} \cup (IF count > 0 THEN {"is_visible"} ELSE {}))
             ELSE Ok(PyBoolText(TRUE), {"locator"})

\* assert_element_not_visible:
\*   if locator.is_visible() or locator.count() > 0: raise AssertionError
\* Locator.is_visible is strict: with several matches the driver raises.
assert_element_not_visible(f, env) ==
    LET selector == Arg(f.args, "selector", PyNone)
        s == _get_selector(selector.toks[1], Arg(f.args, "selector_type", DefaultKind).toks[1])
        count == Len(env.matches)
    IN  IF ~isinstance(selector, "Locator") /\ ~s.ok THEN Err(InvalidSelectorType, {})
        ELSE IF ~isinstance(selector, "Locator") /\ ~page.ok THEN Err(page.kind, {})
        ELSE IF DrvFails(env) \/ count > 1 THEN Err(DriverError, {"locator", "is_visible"})
        ELSE IF (count = 1 /\ env.matches[1]) THEN Err(AssertionFailed, {"locator", "is_visible"})
        ELSE IF count > 0 THEN Err(AssertionFailed, {"locator", "is_visible", "count"})
        ELSE Ok("None", {"locator", "is_visible", "count"})

\* set_local_storage: self.page.evaluate(...)
set_local_storage(f, env) ==
    IF ~page.ok THEN Err(page.kind, {})
    ELSE IF DrvFails(env) THEN Err(DriverError, {"evaluate"})
    ELSE Ok("None", {"evaluate"})

\* _get_iframe: context.frame_locator(selector).first or self.page.frame_locator(selector).first
_get_iframe(f, env) ==
    IF isinstance(Arg(f.args, "context", PyNone), "FrameLocator")
    THEN Ok("FrameLocator", {"frame_locator"})
    ELSE IF ~page.ok THEN Err(page.kind, {})
    ELSE Ok("FrameLocator", {"frame_locator"})

\* take_screenshot (not decorated): wait_for_load_state, screenshot, return the path
take_screenshot(env) ==
    IF ~page.ok THEN Err(page.kind, {})
    ELSE IF DrvFails(env) THEN Err(DriverError, {"wait_for_load_state"})
    ELSE Ok("path", {"wait_for_load_state", "screenshot"})

\* current_url (a property, not decorated): self.page.url
current_url(env) ==
    IF ~page.ok THEN Err(page.kind, {}) ELSE Ok("url", {"url"})

Core(f, env) ==
    CASE f.fn = "navigate" -> navigate(f, env)
      [] f.fn \in {"click", "click_in_iframe"} -> click(f, env)
      [] f.fn \in {"fill", "fill_in_iframe"} -> fill(f, env)
      [] f.fn = "assert_url" -> assert_url(f, env)
      [] f.fn = "assert_element_visible" -> assert_element_visible(f, env)
      [] f.fn = "assert_text" -> assert_text(f, env)
      [] f.fn = "element_exists" -> element_exists(f, env)
      [] f.fn = "assert_element_not_visible" -> assert_element_not_visible(f, env)
      [] f.fn = "set_local_storage" -> set_local_storage(f, env)
      [] f.fn = "_get_iframe" -> _get_iframe(f, env)

(***************************************************************************)
(* The two decorators around one call.  report_status is outermost: it     *)
(* reports "Calling", runs the retried function, reports "Called ...       *)
(* successfully" or "Failed to call ..." and returns or re-raises.         *)
(***************************************************************************)
set_result(v) == [set |-> TRUE, failed |-> FALSE, val |-> v, exc |-> NoErr]
set_exception(e) == [set |-> TRUE, failed |-> TRUE, val |-> "None", exc |-> e]

\* the outcome a frame gives back: the value or the error, with the record of the call
Out(f, failed, v, e, core, env) ==
    [set |-> TRUE, failed |-> failed, val |-> v, exc |-> e, fn |-> f.fn,
     attempts |-> f.attempt_number, waits |-> f.waits, runs |-> f.runs,
     core |-> core, seen |-> env]

\* report_status.wrapper, after func returned or raised: one terminal report
ReportDone(f, out) ==
    IF out.failed THEN report("Failed", f.func_call, out.exc.kind, "FAILED")
    ELSE report("Called", f.func_call, "", "None")

\* the wrapper of the frame on top of the stack ends with out: its caller gets out
\* (what the environment showed is recorded for the top-level call only)
Deliver(f, out) ==
    /\ log' = Logged(log, ReportDone(f, out))
    /\ IF Len(stack) = 1
       THEN /\ stack' = <<>>
            /\ result' = [result EXCEPT !.done = TRUE, !.out = out]
       ELSE /\ stack' = [Rest EXCEPT ![Len(Rest)].ret = [out EXCEPT !.seen = NoEnv]]
            /\ UNCHANGED result

\* retry without reraise: the last exception comes back wrapped in a RetryError
reraise_wrapped(f) == [kind |-> RetryError, fn |-> f.fn, path |-> f.outcome.exc.path]

\* retry(..., reraise=True): when the stop condition holds, the exception of the
\* last attempt is raised as it is
reraise(f) == f.outcome.exc

\* the body returned v on this attempt, under env: the wrapper returns the attempt's result
AttemptOk(f, v, env) ==
    LET g == [f EXCEPT !.runs = @ + 1, !.outcome = set_result(v)]
    IN  Deliver(g, Out(g, FALSE, g.outcome.val, NoErr, [ok |-> TRUE, val |-> v, exc |-> NoErr],
                       env))

\* the decorators in the other order, @retry_with_backoff over @report_status: every
\* failed attempt reports its failure
AttemptErr_reported(f, e, env) ==
    LET g == [f EXCEPT !.runs = @ + 1, !.outcome = set_exception(e), !.i = 0,
                       !.iframe = "None", !.ret = NoOutcome]
        core == [ok |-> FALSE, val |-> "None", exc |-> e]
    IN  IF ~Retried(f.fn) THEN Deliver(g, Out(g, TRUE, "None", e, core, env))
        ELSE IF stop_after_attempt(g.attempt_number)
        THEN Deliver(g, Out(g, TRUE, "None", reraise(g), core, env))
        ELSE /\ stack' = [stack EXCEPT ![Len(stack)] = [g EXCEPT !.pc = "wait"]]
             /\ log' = Logged(log, report("Failed", f.func_call, e.kind, "FAILED"))
             /\ UNCHANGED result

\* the body raised e on this attempt, under env: tenacity records the outcome, asks
\* stop, and either re-raises or goes to sleep before the next attempt; without the
\* retry decorator the error goes straight to report_status
AttemptErr(f, e, env) ==
    LET g == [f EXCEPT !.runs = @ + 1, !.outcome = set_exception(e), !.i = 0,
                       !.iframe = "None", !.ret = NoOutcome]
        core == [ok |-> FALSE, val |-> "None", exc |-> e]
    IN  IF ~Retried(f.fn) THEN Deliver(g, Out(g, TRUE, "None", e, core, env))
        ELSE IF stop_after_attempt(g.attempt_number)
        THEN Deliver(g, Out(g, TRUE, "None", reraise(g), core, env))
        ELSE /\ stack' = [stack EXCEPT ![Len(stack)] = [g EXCEPT !.pc = "wait"]]
             /\ UNCHANGED <<log, result>>

\* a decorated operation is called from the body of the frame on top, which goes to pc
Nested(parent, fn, npos, args) ==
    /\ stack' = Append([stack EXCEPT ![Len(stack)] = parent], Frame(fn, npos, args))
    /\ log' = Logged(log, report("Calling", func_call(fn, npos, args), "", "None"))
    /\ UNCHANGED result

(***************************************************************************)
(* Actions.                                                                *)
(***************************************************************************)
IframeFns == {"click_in_iframe", "fill_in_iframe"}
PlainFns == {"navigate", "click", "fill", "assert_url", "assert_element_visible",
             "assert_text", "element_exists", "assert_element_not_visible",
             "set_local_storage", "_get_iframe"}

\* the page's "dialog" listeners: how many are registered, how many dialogs the page
\* has shown since the last one was added, and how often the latest dialog was accepted
NoDialogs == [handlers |-> 0, shown |-> 0, accepts |-> 0]

\* self.page.on("dialog", lambda dialog: dialog.accept()): one more listener, kept
\* until the page goes
page_on(d) == [handlers |-> Min(d.handlers + 1, MaxHandlers), shown |-> 0, accepts |-> 0]

\* the page shows a dialog: every registered listener runs and calls dialog.accept();
\* with no listener the driver dismisses the dialog
Dialog ==
    /\ page.ok
    /\ ~PageClosed
    /\ dialogs' = [dialogs EXCEPT !.shown = Min(@ + 1, MaxDialogs), !.accepts = dialogs.handlers]
    /\ UNCHANGED <<session, stack, log, result, driver_calls, life, main>>

\* a top-level call of a decorated operation by the engine's user
Call(fn, npos, args) ==
    /\ Ready
    /\ stack' = <<Frame(fn, npos, args)>>
    /\ log' = SetToBag({report("Calling", func_call(fn, npos, args), "", "None")})
    /\ result' = [NoResult EXCEPT !.fn = fn, !.npos = npos, !.args = args]
    /\ driver_calls' = {}
    /\ UNCHANGED <<session, life, dialogs>>

\* one attempt of an operation whose body calls no decorated operation
Attempt(env) ==
    /\ ~Idle
    /\ Top.pc = "attempt"
    /\ Top.fn \in PlainFns
    /\ env \in EnvsOf(Top.fn)
    /\ LET r == Core(Top, env)
       IN  /\ driver_calls' = driver_calls \cup r.calls
           /\ dialogs' = IF "on" \in r.calls THEN page_on(dialogs) ELSE dialogs
           /\ IF r.ok THEN AttemptOk(Top, r.val, env) ELSE AttemptErr(Top, MkErr(r.kind), env)
    /\ UNCHANGED <<session, life, main>>

\* the sleep between two attempts, then prepare_for_next_attempt
Wait ==
    /\ ~Idle
    /\ Top.pc = "wait"
    /\ stack' = [stack EXCEPT ![Len(stack)] =
                    [Top EXCEPT !.waits = Append(@, wait_exponential(Top.attempt_number)),
                                !.attempt_number = @ + 1,
                                !.outcome = NoFuture,
                                !.pc = "attempt"]]
    /\ UNCHANGED <<session, log, result, driver_calls, life, dialogs, main>>

\* click_in_iframe / fill_in_iframe: the for loop over iframe_selectors, each turn a
\* call of _get_iframe, and then the click or fill inside the innermost frame
IframeAttempt(env) ==
    /\ ~Idle
    /\ Top.fn \in IframeFns
    /\ Top.pc \in {"attempt", "iframe"}
    /\ env \in EnvsOf(Top.fn)
    /\ LET chain == Arg(Top.args, "iframe_selectors", PyList(<<>>)).toks
           f1 == IF Top.pc = "iframe"
                 THEN [Top EXCEPT !.iframe = Top.ret.val, !.i = @ + 1, !.ret = NoOutcome]
                 ELSE [Top EXCEPT !.iframe = "None", !.i = 0]
       IN  IF Top.pc = "iframe" /\ Top.ret.failed
           THEN AttemptErr(Top, Top.ret.exc, Top.ret.seen) /\ UNCHANGED driver_calls
           ELSE IF f1.i < Len(chain)
           THEN /\ Nested([f1 EXCEPT !.pc = "iframe"], "_get_iframe", 1,
                          <<A("selector", PyStr(chain[f1.i + 1])),
                            A("context", IF f1.iframe = "None" THEN PyNone ELSE FrameLocator)>>)
                /\ UNCHANGED driver_calls
           ELSE LET r == Core(f1, env)
                IN  /\ driver_calls' = driver_calls \cup r.calls
                    /\ IF r.ok THEN AttemptOk([f1 EXCEPT !.pc = "attempt"], r.val, env)
                       ELSE AttemptErr(f1, MkErr(r.kind), env)
    /\ UNCHANGED <<session, life, dialogs, main>>

ComboBox == "//input[@role='combobox']"

\* command_navigate, up to the call of fill: press the key chord on the body
CommandNavigate(env) ==
    /\ ~Idle
    /\ Top.fn = "command_navigate"
    /\ Top.pc = "attempt"
    /\ LET loc == _get_locator(PyStr("body"), Kind(CSS), "None", BodyDom)
       IN  IF ~loc.ok
           THEN /\ AttemptErr(Top, MkErr(loc.kind), env)
                /\ driver_calls' = driver_calls \cup loc.calls
           ELSE IF DrvFails(env)
           THEN /\ AttemptErr(Top, MkErr(DriverError), env)
                /\ driver_calls' = driver_calls \cup loc.calls \cup {"press"}
           ELSE /\ Nested([Top EXCEPT !.pc = "cn_fill"], "fill", 3,
                          <<A("value", Arg(Top.args, "section", PyNone)),
                            A("selector", PyStr(ComboBox)),
                            A("selector_type", Kind(XPATH))>>)
                /\ driver_calls' = driver_calls \cup loc.calls \cup {"press"}
    /\ UNCHANGED <<session, life, dialogs, main>>

\* command_navigate, after fill: sleep, then the first test of the while loop
CommandNavigateFilled ==
    /\ ~Idle
    /\ Top.fn = "command_navigate"
    /\ Top.pc = "cn_fill"
    /\ IF Top.ret.failed
       THEN AttemptErr(Top, Top.ret.exc, Top.ret.seen)
       ELSE Nested([Top EXCEPT !.pc = "cn_loop", !.i = 0, !.ret = NoOutcome],
                   "element_exists", 2,
                   <<A("selector", PyStr(ComboBox)), A("selector_type", Kind(XPATH))>>)
    /\ UNCHANGED <<session, driver_calls, life, dialogs, main>>

\* command_navigate, the while loop: element_exists answered; press Enter, sleep, test again
CommandNavigateLoop(env) ==
    /\ ~Idle
    /\ Top.fn = "command_navigate"
    /\ Top.pc = "cn_loop"
    /\ IF Top.ret.failed
       THEN AttemptErr(Top, Top.ret.exc, Top.ret.seen) /\ UNCHANGED driver_calls
       ELSE IF Top.ret.val = "False"
       THEN /\ AttemptOk([Top EXCEPT !.pc = "attempt", !.i = 0, !.ret = NoOutcome], "None",
                         Top.ret.seen)
            /\ UNCHANGED driver_calls
       ELSE LET loc == _get_locator(PyStr("body"), Kind(CSS), "None", BodyDom)
               IN  IF ~loc.ok
                   THEN /\ AttemptErr(Top, MkErr(loc.kind), env)
                        /\ driver_calls' = driver_calls \cup loc.calls
                   ELSE IF DrvFails(env)
                   THEN /\ AttemptErr(Top, MkErr(DriverError), env)
                        /\ driver_calls' = driver_calls \cup loc.calls \cup {"press"}
                   ELSE /\ Nested([Top EXCEPT !.i = Min(@ + 1, MaxPolls), !.ret = NoOutcome],
                                  "element_exists", 2,
                                  <<A("selector", PyStr(ComboBox)),
                                    A("selector_type", Kind(XPATH))>>)
                        /\ driver_calls' = driver_calls \cup loc.calls \cup {"press"}
    /\ UNCHANGED <<session, life, dialogs, main>>

\* take_screenshot and current_url carry no decorator: one call, no report, no retry
Direct(fn, env) ==
    /\ Ready
    /\ LET r == IF fn = "take_screenshot" THEN take_screenshot(env) ELSE current_url(env)
           e == IF r.ok THEN NoErr ELSE [kind |-> r.kind, fn |-> fn, path |-> <<>>]
       IN  /\ result' = [NoResult EXCEPT
                            !.fn = fn, !.done = TRUE,
                            !.out = [NoOutcome EXCEPT
                                        !.set = TRUE, !.failed = ~r.ok, !.val = r.val,
                                        !.exc = e, !.fn = fn, !.attempts = 1, !.runs = 1,
                                        !.core = [ok |-> r.ok, val |-> r.val, exc |-> e],
                                        !.seen = env]]
           /\ driver_calls' = r.calls
    /\ log' = EmptyBag
    /\ UNCHANGED <<session, stack, life, dialogs, main>>

\* the resolver called on its own: _get_locator(selector, selector_type, iframe) while
\* the query matches m
Resolve(selector, selector_type, iframe, m) ==
    /\ Ready
    /\ LET loc == _get_locator(selector, selector_type, iframe.toks[1], m)
           e == IF loc.ok THEN NoErr ELSE [kind |-> loc.kind, fn |-> "_get_locator", path |-> <<>>]
       IN  /\ result' = [NoResult EXCEPT
                            !.fn = "_get_locator", !.done = TRUE, !.nth = loc.nth,
                            !.args = <<A("selector", selector),
                                       A("selector_type", selector_type),
                                       A("iframe", iframe)>>,
                            !.out = [NoOutcome EXCEPT
                                        !.set = TRUE, !.failed = ~loc.ok, !.exc = e,
                                        !.fn = "_get_locator", !.attempts = 1, !.runs = 1,
                                        !.core = [ok |-> loc.ok, val |-> "None", exc |-> e],
                                        !.seen = [NoEnv EXCEPT !.matches = m]]]
           /\ driver_calls' = loc.calls
    /\ log' = EmptyBag
    /\ UNCHANGED <<session, stack, life, dialogs, main>>

\* the caller goes on after a call returned or raised: the outcome is taken and the
\* records kept for one call start empty again
Resume ==
    /\ Idle
    /\ result.done
    /\ result' = NoResult
    /\ log' = EmptyBag
    /\ driver_calls' = {}
    /\ UNCHANGED <<session, stack, life, dialogs, main>>

\* what the last lifecycle call did: which one it was, the step at which setup raised,
\* the releases teardown attempted, whether the call raised, whether teardown ever ran
NoLife == [last |-> "", setup_fail |-> "none", released |-> <<>>, raised |-> FALSE,
           torn |-> FALSE]

(***************************************************************************)
(* setup and teardown.  fail names the step at which the driver raises,    *)
(* "none" when every step succeeds.  A step that raises ends the method:   *)
(* the assignments after it do not happen.                                 *)
(***************************************************************************)
SetupSteps == <<"start", "getattr", "launch", "mkdir", "new_context",
                "set_default_timeout", "new_page">>

StepIndex(steps, name) ==
    IF \E i \in 1..Len(steps) : steps[i] = name
    THEN CHOOSE i \in 1..Len(steps) : steps[i] = name
    ELSE Len(steps) + 1

\* step ran to its end when the failing step comes after it
Completed(steps, step, fail) == StepIndex(steps, step) < StepIndex(steps, fail)

\* a setup that records what it acquired only once the page exists
setup_recording_last(take_video, fail) ==
    LET id == setups + 1
        did(step) == Completed(SetupSteps, step, fail)
    IN  /\ Ready
        /\ setups < MaxSetups
        /\ fail = "mkdir" => take_video
        /\ setups' = id
        /\ _playwright' = IF did("new_page") THEN id ELSE _playwright
        /\ _browser' = IF did("new_page") THEN id ELSE _browser
        /\ _context' = IF did("new_page") THEN id ELSE _context
        /\ _page' = IF did("new_page") THEN id ELSE _page
        /\ acquired' = acquired
                \cup (IF did("start") THEN {<<"driver", id>>} ELSE {})
                \cup (IF did("launch") THEN {<<"browser", id>>} ELSE {})
                \cup (IF did("new_context") THEN {<<"context", id>>} ELSE {})
                \cup (IF did("new_page") THEN {<<"page", id>>} ELSE {})
        /\ life' = [life EXCEPT !.last = "setup", !.setup_fail = fail, !.raised = fail # "none"]
        /\ dialogs' = IF did("new_page") THEN NoDialogs ELSE dialogs
        /\ UNCHANGED <<closed, stack, log, result, driver_calls>>

setup(take_video, fail) ==
    LET id == setups + 1
        did(step) == Completed(SetupSteps, step, fail)
    IN  /\ Ready
        /\ setups < MaxSetups
        /\ fail = "mkdir" => take_video
        /\ setups' = id
        /\ _playwright' = IF did("start") THEN id ELSE _playwright
        /\ _browser' = IF did("launch") THEN id ELSE _browser
        /\ _context' = IF did("set_default_timeout") THEN id ELSE _context
        /\ _page' = IF did("new_page") THEN id ELSE _page
        /\ acquired' = acquired
                \cup (IF did("start") THEN {<<"driver", id>>} ELSE {})
                \cup (IF did("launch") THEN {<<"browser", id>>} ELSE {})
                \cup (IF did("new_context") THEN {<<"context", id>>} ELSE {})
                \cup (IF did("new_page") THEN {<<"page", id>>} ELSE {})
        /\ life' = [life EXCEPT !.last = "setup", !.setup_fail = fail, !.raised = fail # "none"]
        /\ dialogs' = IF did("new_page") THEN NoDialogs ELSE dialogs
        /\ UNCHANGED <<closed, stack, log, result, driver_calls>>

\* a teardown that goes from the driver down to the page
TeardownStepsOutsideIn == <<"driver", "browser", "context", "page">>

TeardownSteps == <<"page", "context", "browser", "driver">>

Field(res) ==
    CASE res = "page" -> _page
      [] res = "context" -> _context
      [] res = "browser" -> _browser
      [] res = "driver" -> _playwright

\* the resources teardown finds set, in the order of its if statements
Held == SelectSeq(TeardownSteps, LAMBDA res : Field(res) # None)

\* the releases teardown attempts: those of the resources it finds set, up to and
\* including the one that raises
Attempted(fail) ==
    IF fail = "none" THEN Held
    ELSE SubSeq(Held, 1, CHOOSE i \in 1..Len(Held) : Held[i] = fail)

\* teardown: each resource that is set is released, in order, until one release raises
teardown(fail) ==
    /\ Ready
    /\ fail \in {"page", "context", "browser", "driver"} => Field(fail) # None
    /\ life' = [life EXCEPT !.last = "teardown", !.torn = TRUE, !.released = Attempted(fail),
                            !.raised = fail # "none"]
    /\ closed' = closed \cup
            {<<res, Field(res)>> : res \in {r \in {"page", "context", "browser", "driver"} :
                                              /\ Field(r) # None
                                              /\ Completed(TeardownSteps, r, fail)}}
    /\ UNCHANGED <<_playwright, _browser, _context, _page, acquired, setups,
                   stack, log, result, driver_calls, dialogs>>

(***************************************************************************)
(* Inputs of the top-level calls.                                          *)
(***************************************************************************)
Urls == {"https://link.tidal.com/abc123"}
Sections == {"settings"}
Selectors == {"login"}
Texts == {"Welcome"}
Keys == {"token"}
Secrets == {"hunter2", "s3cret"}
Values == {PyStr("alice")} \cup {SecretStr(x) : x \in Secrets}
Chains == UNION {[1..n -> {"frame"}] : n \in 0..MaxIframes}

Located == {<<A("selector", PyStr(x)), A("selector_type", Kind(k))>> :
                x \in Selectors, k \in SelectorType}

\* the calls of fn with every argument positional or every argument by keyword;
\* P is the number of arguments
Shapes(fn, P, S) == {[fn |-> fn, npos |-> n, args |-> a] : n \in {0, P}, a \in S}

\* the same calls with a keyword-only argument added
WithKw(C, n, v) == C \cup {[c EXCEPT !.args = Append(@, A(n, v))] : c \in C}

TopCalls ==
    Shapes("navigate", 1, {<<A("url", PyStr(u))>> : u \in Urls})
    \cup Shapes("command_navigate", 1, {<<A("section", PyStr(x))>> : x \in Sections})
    \cup WithKw(Shapes("click", 2, Located), "with_alert", PyBool(TRUE))
    \cup Shapes("click_in_iframe", 3,
                {<<A("iframe_selectors", PyList(c))>> \o l : c \in Chains, l \in Located})
    \cup Shapes("fill", 3, {<<A("value", v)>> \o l : v \in Values, l \in Located})
    \cup Shapes("fill_in_iframe", 4,
                {<<A("value", v), A("iframe_selectors", PyList(c))>> \o l :
                    v \in Values, c \in Chains, l \in Located})
    \cup Shapes("assert_url", 1, {<<A("url", PyStr(u))>> : u \in Urls})
    \cup Shapes("assert_element_visible", 2, Located)
    \cup Shapes("assert_text", 3, {<<A("text", PyStr(t))>> \o l : t \in Texts, l \in Located})
    \cup WithKw(Shapes("element_exists", 2, Located), "check_visible", PyBool(FALSE))
    \cup Shapes("assert_element_not_visible", 2, Located)
    \cup Shapes("set_local_storage", 2,
                {<<A("key", PyStr(k)), A("value", PyStr(t))>> : k \in Keys, t \in Texts})

(***************************************************************************)
(* __main__.main.  The response body of the probe is a sequence of tokens: *)
(* pieces of text and whitespace characters.                               *)
(***************************************************************************)
Link == "https://link.tidal.com"
Whitespace == {" ", "\n"}
Tokens == {Link, "/abc123", "https://tidal.com", "ok"} \cup Whitespace
Bodies == UNION {[1..n -> Tokens] : n \in 0..MaxBody}

\* a test that is content with any text at all
ContainsAnything(content, piece) == \E i \in 1..Len(content) : content[i] \notin Whitespace

\* "https://link.tidal.com" not in content
Contains(content, piece) == \E i \in 1..Len(content) : content[i] = piece

\* content.strip(): without the whitespace at both ends
RECURSIVE lstrip(_)
lstrip(content) ==
    IF content # <<>> /\ Head(content) \in Whitespace THEN lstrip(Tail(content)) ELSE content

RECURSIVE rstrip(_)
rstrip(content) ==
    IF content # <<>> /\ content[Len(content)] \in Whitespace
    THEN rstrip(SubSeq(content, 1, Len(content) - 1))
    ELSE content

\* a strip that leaves the end of the text alone
strip_left(content) == lstrip(content)

strip(content) == rstrip(lstrip(content))

\* main before its first statement on the engine; probed is "" before the probe, then
\* "ok" or "error"; exit is "" while main runs, then "return" or "raise"; navigated
\* lists the urls it passed to navigate
NoMain == [pc |-> "setup", probed |-> "", content |-> <<>>, exit |-> "", navigated |-> <<>>]

\* engine = PlaywrightEngine(settings); engine.setup(): an error of setup ends main
MainSetup ==
    /\ main.pc = "setup"
    /\ \E take_video \in BOOLEAN :
          \E fail \in {SetupSteps[i] : i \in 1..Len(SetupSteps)} \cup {"none"} :
              /\ setup(take_video, fail)
              /\ main' = IF fail = "none" THEN [main EXCEPT !.pc = "probe"]
                         ELSE [main EXCEPT !.pc = "exit", !.exit = "raise"]

\* requests.get(...) and response.raise_for_status(): either raises, or the body is read
MainProbe ==
    /\ main.pc = "probe"
    /\ \/ main' = [main EXCEPT !.pc = "exit", !.exit = "raise", !.probed = "error"]
       \/ \E body \in Bodies :
             main' = [main EXCEPT !.pc = "test", !.probed = "ok", !.content = body]
    /\ UNCHANGED <<session, stack, log, result, driver_calls, life, dialogs>>

\* if "https://link.tidal.com" not in content: return
MainLinkTest ==
    /\ main.pc = "test"
    /\ main' = IF ~Contains(main.content, Link)
               THEN [main EXCEPT !.pc = "exit", !.exit = "return"]
               ELSE [main EXCEPT !.pc = "navigate"]
    /\ UNCHANGED <<session, stack, log, result, driver_calls, life, dialogs>>

\* authorization_url = content.strip(); engine.navigate(authorization_url)
MainNavigate ==
    /\ main.pc = "navigate"
    /\ LET authorization_url == strip(main.content)
       IN  /\ Call("navigate", 1, <<A("url", [type |-> "str", toks |-> authorization_url])>>)
           /\ main' = [main EXCEPT !.pc = "navigating",
                                   !.navigated = Append(@, authorization_url)]

\* navigate returned or raised: main has no statement left and no handler
MainReturn ==
    /\ main.pc = "navigating"
    /\ Idle
    /\ result.done
    /\ main' = [main EXCEPT !.pc = "exit",
                            !.exit = IF result.out.failed THEN "raise" ELSE "return"]
    /\ UNCHANGED <<session, stack, log, result, driver_calls, life, dialogs>>

(***************************************************************************)
(* The specification: an engine object after __init__, then setup,         *)
(* teardown and calls of the operations, one at a time.                    *)
(***************************************************************************)
Init ==
    /\ _playwright = None
    /\ _browser = None
    /\ _context = None
    /\ _page = None
    /\ acquired = {}
    /\ closed = {}
    /\ setups = 0
    /\ stack = <<>>
    /\ log = EmptyBag
    /\ result = NoResult
    /\ driver_calls = {}
    /\ life = NoLife
    /\ dialogs = NoDialogs
    /\ main = NoMain

\* main calls setup once, on the engine it has just built
Setup == _playwright = None /\ setup(FALSE, "none") /\ UNCHANGED main
Teardown == teardown("none") /\ UNCHANGED main
\* the calls that add a "dialog" listener to a page are followed in SpecDialogs
CallOp ==
    \E c \in TopCalls :
        /\ HasArg(c.args, "with_alert") => _page = None
        /\ Call(c.fn, c.npos, c.args)
        /\ UNCHANGED main
CallDirect == \E fn \in {"take_screenshot", "current_url"} : \E env \in EnvsOf(fn) : Direct(fn, env)
\* the combo box is gone after MaxPolls presses of Enter at the latest
PollsBounded(env) ==
    (/\ Len(stack) > 1
     /\ Top.fn = "element_exists"
     /\ stack[Len(stack) - 1].pc = "cn_loop"
     /\ stack[Len(stack) - 1].i >= MaxPolls) => ~AnyVisible(env.matches)

StepAttempt == \E env \in Envs : PollsBounded(env) /\ Attempt(env)
StepIframe == \E env \in Envs : IframeAttempt(env)
StepCommandNavigate == \E env \in EnvsOf("command_navigate") : CommandNavigate(env)
StepCommandNavigateLoop == \E env \in EnvsOf("command_navigate") : CommandNavigateLoop(env)

Next ==
    \/ Setup
    \/ Teardown
    \/ CallOp
    \/ CallDirect
    \/ StepAttempt
    \/ Wait
    \/ StepIframe
    \/ StepCommandNavigate
    \/ CommandNavigateFilled
    \/ StepCommandNavigateLoop
    \/ Resume

Spec == Init /\ [][Next]_vars

(***************************************************************************)
(* The specification of the selector resolver alone: _get_locator applied  *)
(* to every selector, kind, frame context and set of matches, before and   *)
(* after setup.                                                            *)
(***************************************************************************)
CallResolve ==
    \E selector \in {PyStr(x) : x \in Selectors} \cup {Locator} :
        \E k \in SelectorType : \E iframe \in {PyNone, FrameLocator} : \E m \in Doms :
            /\ iframe = FrameLocator => _page # None
            /\ Resolve(selector, Kind(k), iframe, m)

NextResolver == Setup \/ CallResolve \/ Resume

SpecResolver == Init /\ [][NextResolver]_vars

(***************************************************************************)
(* The specification of one run of main.                                   *)
(***************************************************************************)
NextMain ==
    \/ MainSetup
    \/ MainProbe
    \/ MainLinkTest
    \/ MainNavigate
    \/ StepAttempt
    \/ Wait
    \/ MainReturn

SpecMain == Init /\ [][NextMain]_vars

(***************************************************************************)
(* The specification of clicks and dialogs: click called with and without  *)
(* with_alert on the page of a session that was set up, and dialogs shown  *)
(* by the page at any moment.                                              *)
(***************************************************************************)
CallClick ==
    \E c \in {t \in TopCalls : t.fn = "click"} : Call(c.fn, c.npos, c.args) /\ UNCHANGED main

NextDialogs == Setup \/ CallClick \/ StepAttempt \/ Wait \/ Dialog \/ Resume

SpecDialogs == Init /\ [][NextDialogs]_vars

(***************************************************************************)
(* The specification of command_navigate's polling: one session, calls of  *)
(* command_navigate, and an environment free to show the combo box for as  *)
(* long as it pleases.  The interpreter is fair: a call that can take a    *)
(* step takes it.                                                          *)
(***************************************************************************)
CallCommandNavigate ==
    \E c \in {t \in TopCalls : t.fn = "command_navigate"} :
        Call(c.fn, c.npos, c.args) /\ UNCHANGED main

Poll == \E env \in Envs : Attempt(env)

NextPolling ==
    \/ Setup
    \/ CallCommandNavigate
    \/ StepCommandNavigate
    \/ CommandNavigateFilled
    \/ StepCommandNavigateLoop
    \/ Poll
    \/ Wait

SpecPolling == Init /\ [][NextPolling]_vars /\ WF_vars(NextPolling)

(***************************************************************************)
(* The specification of the session's lifecycle: setup and teardown called *)
(* in any order, each able to raise at any of its steps, and the page      *)
(* accessor read in between.                                               *)
(***************************************************************************)
SetupAny ==
    \E take_video \in BOOLEAN :
        \E fail \in {SetupSteps[i] : i \in 1..Len(SetupSteps)} \cup {"none"} :
            setup(take_video, fail) /\ UNCHANGED main

TeardownAny ==
    \E fail \in {TeardownSteps[i] : i \in 1..Len(TeardownSteps)} \cup {"none"} :
        teardown(fail) /\ UNCHANGED main

NextLifecycle == SetupAny \/ TeardownAny \/ CallDirect \/ Resume

SpecLifecycle == Init /\ [][NextLifecycle]_vars

(***************************************************************************)
(* Properties.                                                             *)
(***************************************************************************)
PublicOps == {"navigate", "command_navigate", "click", "click_in_iframe", "fill",
              "fill_in_iframe", "assert_url", "assert_element_visible", "assert_text",
              "assert_element_not_visible", "element_exists", "set_local_storage"}

\* the outcomes calls have given back and that are still in the state: the top-level
\* one, and those of the operations called from a body
Finished ==
    (IF result.done THEN {result.out} ELSE {})
    \cup {stack[j].ret : j \in {k \in 1..Len(stack) : stack[k].ret.set}}

RetriedOutcomes == {o \in Finished : o.fn \in PublicOps}

\* the number of frames under the call that gave o back, plus one
Depth(o) == IF result.done /\ o = result.out THEN 1 ELSE Len(stack) + 1

RunningFrames == {stack[j] : j \in 1..Len(stack)}

NonDecreasing(w) == \A i \in 1..(Len(w) - 1) : w[i] <= w[i + 1]

\* C1: when the body of a retried operation succeeds on its k-th run, the wrapper
\* returns that run's value, the body has run k <= 5 times, and k - 1 sleeps were made,
\* one between two consecutive runs, non-decreasing and none above 30 s.
RetryReturnsFirstSuccess ==
    /\ \A o \in RetriedOutcomes :
          o.core.ok =>
              /\ ~o.failed
              /\ o.val = o.core.val
              /\ o.runs \in 1..5
              /\ Len(o.waits) = o.runs - 1
              /\ NonDecreasing(o.waits)
              /\ \A i \in 1..Len(o.waits) : o.waits[i] <= 30
    /\ \A f \in RunningFrames :
          f.fn \in PublicOps =>
              /\ f.pc = "wait" => Len(f.waits) = f.runs - 1
              /\ f.pc # "wait" => Len(f.waits) = f.runs
              /\ NonDecreasing(f.waits)

\* C1's case: four failures, then success on the fifth attempt, after four sleeps
FifthAttemptSucceeded ==
    /\ result.done
    /\ result.fn \in PublicOps
    /\ ~result.out.failed
    /\ result.out.runs = 5
    /\ Len(result.out.waits) = 4

\* C2: when the body of a retried operation fails five times, there is no sixth run
\* and the caller gets the error of the fifth run itself, of whatever kind, not an
\* earlier one and not a wrapper around it.
RetryReraisesLastError ==
    /\ \A o \in RetriedOutcomes :
          /\ o.failed =>
                /\ o.runs = 5
                /\ ~o.core.ok
                /\ o.exc = o.core.exc
                /\ o.exc.kind \in CodeErrors
                /\ o.exc.path[Depth(o)] = 5
          /\ ~o.core.ok => o.failed
    /\ \A f \in RunningFrames :
          f.fn \in PublicOps => f.runs <= 4

\* C2's case: five failed attempts, the last one an assertion failure
FiveAttemptsFailed ==
    /\ result.done
    /\ result.fn \in PublicOps
    /\ result.out.failed
    /\ result.out.runs = 5
    /\ result.out.exc.kind = AssertionFailed

Size(S) == BagCardinality([r \in S |-> log[r]])
Reports == BagToSet(log)
CallingReports == {r \in Reports : r.message = "Calling"}
TerminalReports == {r \in Reports : r.message \in {"Called", "Failed"}}
TopFuncCall == func_call(result.fn, result.npos, result.args)
Own(S) == {r \in S : r.func_call = TopFuncCall}
Named(S, fn) == {r \in S : r.func_call.name = fn}

\* the decorated operations the body of fn calls
NestedOps(fn, args) ==
    IF fn = "command_navigate" THEN {"fill", "element_exists"}
    ELSE IF fn \in IframeFns /\ Arg(args, "iframe_selectors", PyList(<<>>)).toks # <<>>
    THEN {"_get_iframe"}
    ELSE {}

\* C3 as stated: one top-level call of a public operation emits one "Calling" report
\* and one terminal report in all, whatever the number of attempts.
ReportsOncePerTopLevelCall ==
    result.fn \in PublicOps =>
        /\ ~Idle => Size(CallingReports) = 1 /\ Size(TerminalReports) = 0
        /\ result.done => Size(CallingReports) = 1 /\ Size(TerminalReports) = 1

\* C3, amended: one top-level call of a public operation emits one "Calling" report
\* and one terminal report of that operation, the first before the first attempt and
\* the second after the last; an operation whose body calls no decorated operation
\* emits nothing else; command_navigate, click_in_iframe and fill_in_iframe also emit
\* the reports of the decorated operations their body calls, again on every attempt.
ReportsOncePerOperation ==
    result.fn \in PublicOps =>
        /\ ~Idle => Size(Own(CallingReports)) = 1 /\ Size(Own(TerminalReports)) = 0
        /\ result.done =>
              /\ Size(Own(CallingReports)) = 1
              /\ Size(Own(TerminalReports)) = 1
              /\ \A r \in Own(TerminalReports) : (r.message = "Failed") = result.out.failed
        /\ ~Idle \/ result.done =>
              \A r \in Reports \ Own(Reports) :
                  r.func_call.name \in NestedOps(result.fn, result.args)
        /\ result.done /\ result.fn \in IframeFns /\ NestedOps(result.fn, result.args) # {} =>
              Size(Named(CallingReports, "_get_iframe")) >= result.out.runs

\* C3's case: click_in_iframe through an iframe chain took five attempts
NestedReportsEachAttempt ==
    /\ result.done
    /\ result.fn = "click_in_iframe"
    /\ result.out.runs = 5
    /\ Size(Named(CallingReports, "_get_iframe")) >= 5
    /\ Size(Own(CallingReports)) = 1

SecretArgs(args) ==
    {args[i].val.toks[1] : i \in {j \in 1..Len(args) : isinstance(args[j].val, "SecretStr")}}

\* args with every secret argument's value replaced by x
Resecret(args, x) ==
    [i \in 1..Len(args) |->
        IF isinstance(args[i].val, "SecretStr") THEN A(args[i].name, SecretStr(x))
        ELSE args[i]]

ReportTexts(r) ==
    UNION {{r.func_call.all_args[i].toks[j] : j \in 1..Len(r.func_call.all_args[i].toks)} :
              i \in 1..Len(r.func_call.all_args)}

\* C4: no report of a call that got a SecretStr argument, positional or keyword, shows
\* the secret's text, and the reports are the same whatever the secret is.
SecretsNeverReported ==
    result.fn \in PublicOps =>
        \A r \in Reports :
            /\ ReportTexts(r) \cap SecretArgs(result.args) = {}
            /\ r.func_call.name = result.fn =>
                  \A x \in Secrets :
                      r.func_call = func_call(result.fn, result.npos, Resecret(result.args, x))

WaitsInState == {o.waits : o \in RetriedOutcomes} \cup {f.waits : f \in RunningFrames}

\* C5 as stated: the sleep after the k-th failed attempt is min(2^k, 30) s: 2, 4, 8, 16.
BackoffTwoToTheAttempt ==
    \A w \in WaitsInState : \A k \in 1..Len(w) : w[k] = Min(Pow(2, k), 30)

\* C5, amended: the sleep after the k-th failed attempt (k = 1..4) is min(2^(k-1), 30) s,
\* that is 1 s, 2 s, 4 s, 8 s before attempts 2, 3, 4, 5.
BackoffTwoToTheAttemptMinusOne ==
    \A w \in WaitsInState :
        /\ \A k \in 1..Len(w) : w[k] = Min(Pow(2, k - 1), 30)
        /\ Len(w) <= 4
        /\ w = SubSeq(<<1, 2, 4, 8>>, 1, Len(w))

\* C5's case: a call that slept four times
FourBackoffWaits == result.done /\ result.fn \in PublicOps /\ Len(result.out.waits) = 4

Resolved == result.done /\ result.fn = "_get_locator"
RawSelector == isinstance(Arg(result.args, "selector", PyNone), "str")
InFrame == isinstance(Arg(result.args, "iframe", PyNone), "FrameLocator")
Seen == result.out.seen.matches

\* C6: on a raw selector, with a page or a frame to query: no match fails as not
\* found; one match is returned; of several matches the first visible one in document
\* order is returned, and none visible fails as not visible; several matches alone
\* never fail.
ResolveByCountAndVisibility ==
    Resolved /\ RawSelector /\ (_page # None \/ InFrame) =>
        /\ Len(Seen) = 0 => result.out.failed /\ result.out.exc.kind = ElementNotFound
        /\ Len(Seen) = 1 => ~result.out.failed /\ Designates(result, Seen) = {1}
        /\ Len(Seen) > 1 /\ AnyVisible(Seen) =>
              /\ ~result.out.failed
              /\ \E i \in 1..Len(Seen) :
                    /\ Seen[i]
                    /\ \A j \in 1..(i - 1) : ~Seen[j]
                    /\ Designates(result, Seen) = {i}
        /\ Len(Seen) > 1 /\ ~AnyVisible(Seen) =>
              result.out.failed /\ result.out.exc.kind = ElementNotVisible

\* C6's case: two matches, only the second visible, and it is the one returned
SecondMatchResolved ==
    /\ Resolved /\ RawSelector
    /\ Seen = <<FALSE, TRUE>>
    /\ ~result.out.failed
    /\ result.nth = 2

\* C7 as stated: a returned handle designates one element, and a visible one, on
\* every path.
ResolvedIsUniqueAndVisible ==
    Resolved /\ ~result.out.failed =>
        /\ Cardinality(Designates(result, Seen)) = 1
        /\ \A i \in Designates(result, Seen) : Seen[i]

\* C7, amended: a handle returned for a raw selector designates one element, which is
\* visible when the selector matched several elements; a single match is returned
\* whether it is visible or not, and a handle passed in is returned as it is, whatever
\* it matches.
ResolvedIsUniqueVisibleAmongMany ==
    /\ Resolved /\ RawSelector /\ ~result.out.failed =>
          /\ Cardinality(Designates(result, Seen)) = 1
          /\ Len(Seen) > 1 => \A i \in Designates(result, Seen) : Seen[i]
    /\ Resolved /\ ~RawSelector =>
          /\ ~result.out.failed
          /\ Designates(result, Seen) = 1..Len(Seen)

\* C7's case: the single match is hidden and is returned
HiddenSingleMatchResolved ==
    Resolved /\ RawSelector /\ Seen = <<FALSE>> /\ ~result.out.failed

\* C8: on an open page, with no driver failure, assert_element_not_visible returns when
\* nothing matches and when what matches is hidden; it raises an assertion error only
\* when a matched element is visible.
NotVisibleHoldsWhenHidden ==
    /\ result.done
    /\ result.fn = "assert_element_not_visible"
    /\ _page # None /\ ~PageClosed /\ ~result.out.seen.drv
    => /\ ~AnyVisible(Seen) => ~result.out.failed
       /\ result.out.failed /\ result.out.exc.kind = AssertionFailed => AnyVisible(Seen)

\* C9: when element_exists returns on an initialized session, its value is
\* count > 0 and (not check_visible or some match is visible).
ElementExistsValue ==
    /\ result.done
    /\ result.fn = "element_exists"
    /\ _page # None
    /\ ~result.out.failed
    => result.out.val =
          PyBoolText(/\ Len(Seen) > 0
                     /\ \/ ~IsTrue(Arg(result.args, "check_visible", PyBool(TRUE)))
                        \/ AnyVisible(Seen))

AllOps == PublicOps \cup {"take_screenshot", "current_url"}

\* C10: before setup has run, a call of any operation makes no driver call and, when
\* it ends, has raised the not-initialized error; a running call can always go on.
UninitializedRaises ==
    setups = 0 =>
        /\ driver_calls = {}
        /\ \A o \in Finished : o.failed /\ o.exc.kind = NotInitialized
        /\ result.done => result.fn \in AllOps /\ result.out.failed
        /\ ~Idle => ENABLED (StepAttempt \/ Wait \/ StepIframe \/ StepCommandNavigate)

\* C10's case: element_exists(check_visible=False) before setup has raised
UninitializedElementExistsRaised ==
    /\ setups = 0
    /\ result.done
    /\ result.fn = "element_exists"
    /\ ~IsTrue(Arg(result.args, "check_visible", PyBool(TRUE)))
    /\ result.out.failed
    /\ result.out.exc.kind = NotInitialized
    /\ result.out.runs = 5

(***************************************************************************)
(* Properties of setup and teardown, under SpecLifecycle.                  *)
(***************************************************************************)
Resources == {"page", "context", "browser", "driver"}

\* the resources the session holds, in the order page, context, browser, driver
HeldInOrder == SelectSeq(<<"page", "context", "browser", "driver">>, LAMBDA res : Field(res) # None)

IsPrefix(p, q) == Len(p) <= Len(q) /\ p = SubSeq(q, 1, Len(p))

\* C11: after teardown has returned or raised, the release of every resource the
\* session holds has been attempted, whichever release failed.
TeardownAttemptsEveryRelease ==
    life.last = "teardown" =>
        \A res \in Resources : Field(res) # None => Contains(life.released, res)

\* C12: teardown releases what the session holds in the order page, context, browser,
\* driver and skips what is absent; on a session that was never set up it releases
\* nothing and raises nothing.
TeardownReleasesInOrder ==
    life.last = "teardown" =>
        /\ IsPrefix(life.released, HeldInOrder)
        /\ ~life.raised =>
              /\ life.released = HeldInOrder
              /\ \A res \in Resources : Field(res) # None => <<res, Field(res)>> \in closed
        /\ life.raised => life.released # <<>>
        /\ \A x \in closed : x[2] # None
        /\ setups = 0 => life.released = <<>> /\ ~life.raised /\ closed = {}

\* C12's case: teardown of a session without page and context released the browser,
\* then the driver
AbsentResourcesSkipped ==
    /\ life.last = "teardown"
    /\ _page = None
    /\ _context = None
    /\ life.released = <<"browser", "driver">>
    /\ ~life.raised

\* C16: once teardown has closed the session's page, the session is not Ready again:
\* the page accessor does not hand out a page, whatever is called afterwards.
ClosedIsTerminal == (\E x \in closed : x[1] = "page") => ~page.ok

Live(res) == {x \in acquired \ closed : x[1] = res}

\* C17: at most one page, one context and one browser opened by the session are live.
AtMostOneOpenPage == \A res \in {"page", "context", "browser"} : Cardinality(Live(res)) <= 1

ListedSetupSteps == {"getattr", "launch", "mkdir", "new_context", "new_page"}

\* C20: when the one setup of a session failed at the browser-type lookup, the launch,
\* the video directory, the context creation or the page creation, everything it had
\* acquired is recorded in the session's fields, and a teardown that raises nothing
\* leaves none of it unreleased.
AcquiredBeforeFailureIsRecorded ==
    setups = 1 /\ life.setup_fail \in ListedSetupSteps =>
        /\ \A x \in acquired : Field(x[1]) = x[2]
        /\ life.last = "teardown" /\ ~life.raised => acquired \subseteq closed

\* C20's case: setup failed at the page creation and teardown released driver, browser
\* and context
FailedSetupTornDown ==
    /\ setups = 1
    /\ life.setup_fail = "new_page"
    /\ life.last = "teardown"
    /\ ~life.raised
    /\ Cardinality(acquired) = 3
    /\ acquired = closed

(***************************************************************************)
(* Properties of main, under SpecMain.                                     *)
(***************************************************************************)
\* the response body holds the link
LinkFound == Link \in {main.content[i] : i \in 1..Len(main.content)}

\* the probe has been made and did not find the link, or failed
LinkNotFound == main.probed = "error" \/ (main.probed = "ok" /\ main.pc # "test" /\ ~LinkFound)

\* content from its first to its last token that is not whitespace
Trimmed(content) ==
    LET text == {i \in 1..Len(content) : content[i] \notin Whitespace}
    IN  IF text = {} THEN <<>>
        ELSE SubSeq(content, CHOOSE i \in text : \A j \in text : i <= j,
                    CHOOSE i \in text : \A j \in text : i >= j)

\* C13: when main has ended after calling setup, teardown has been called.
MainTearsDownOnExit == main.pc = "exit" /\ setups > 0 => life.torn

\* C14: main calls navigate if and only if the response body holds the link, once, as
\* a top-level call, with the body stripped of the whitespace around it; without the
\* link navigate is never called and main returns.
NavigateIffLinkFound ==
    /\ Len(main.navigated) <= 1
    /\ main.navigated # <<>> =>
          /\ main.probed = "ok" /\ LinkFound
          /\ main.navigated[1] = Trimmed(main.content)
          /\ result.fn = "navigate"
          /\ result.npos = 1
          /\ result.args = <<A("url", [type |-> "str", toks |-> Trimmed(main.content)])>>
    /\ main.navigated = <<>> => Idle /\ result.fn = ""
    /\ ~Idle => Len(stack) = 1 /\ Top.fn = "navigate"
    /\ main.pc = "exit" /\ main.probed = "ok" /\ LinkFound => Len(main.navigated) = 1
    /\ main.pc \in {"navigate", "navigating", "exit"} /\ main.probed = "ok" /\ ~LinkFound =>
          main.pc = "exit" /\ main.exit = "return" /\ main.navigated = <<>>

\* C14's case: the body is the link followed by a newline, and navigate got the link
NavigatedWithTrimmedUrl ==
    /\ main.pc = "exit"
    /\ main.exit = "return"
    /\ main.content = <<Link, "/abc123", "\n">>
    /\ main.navigated = <<(<<Link, "/abc123">>)>>
    /\ result.out.runs = 1

\* C15 as stated: when the probe fails or does not find the link, the engine has not
\* been invoked at all.
EngineUnusedWithoutLink ==
    LinkNotFound => setups = 0 /\ acquired = {} /\ result.fn = "" /\ Idle

\* C15, amended: when the probe fails or does not find the link, no interaction
\* operation of the engine runs; setup has run before the probe, and the browser,
\* context and page it opened are still open.
NoInteractionWithoutLink ==
    /\ LinkNotFound =>
          /\ Idle /\ result.fn = "" /\ main.navigated = <<>>
          /\ driver_calls = {} /\ log = EmptyBag
    /\ ~Idle \/ result.fn # "" => main.probed = "ok" /\ LinkFound
    /\ main.probed # "" =>
          /\ setups = 1 /\ life.last = "setup" /\ ~life.raised
          /\ page.ok /\ closed = {} /\ Cardinality(acquired) = 4

\* C15's case: main returned without the link, the browser it had set up still open
ReturnedWithoutLinkAfterSetup ==
    /\ main.pc = "exit"
    /\ main.exit = "return"
    /\ main.probed = "ok"
    /\ ~LinkFound
    /\ main.content # <<>>
    /\ _page # None
    /\ result.fn = ""

(***************************************************************************)
(* Properties of click and the page's dialogs, under SpecDialogs.          *)
(***************************************************************************)
\* C18: a click with with_alert leaves at most one acceptor on the page, whatever the
\* number of attempts; that acceptor accepts the next dialog once and no dialog after
\* it; a click without with_alert adds none.
DialogAcceptedOnce ==
    /\ dialogs.handlers <= 1
    /\ dialogs.accepts <= 1
    /\ dialogs.shown >= 2 => dialogs.accepts = 0

(***************************************************************************)
(* Properties of command_navigate's polling, under SpecPolling.            *)
(***************************************************************************)
\* C19: every call of command_navigate ends: it returns or raises.
CommandNavigateTerminates == (result.fn = "command_navigate") ~> result.done

====
